---- MODULE Spec2Model ----
(***************************************************************************)
(* Drive Playground service (scripts/drive_playground/                     *)
(* drive_playground_service.py): an HTTP facade (list / read / write) over *)
(* one Google Drive folder, guarded by a static API key.                   *)
(*                                                                         *)
(* Strings are sequences of tokens; a header or environment variable that  *)
(* may be absent is a record [set, val].  Every provider call (one HTTP    *)
(* round trip to Drive) is one atomic step, so that requests served        *)
(* concurrently by the thread pool interleave between provider calls.      *)
(***************************************************************************)
EXTENDS Integers, Sequences, FiniteSets, TLC

\* ------------------------------------------------------------------ bounds
MaxReq == 3          \* requests the clients issue in one run
Concurrency == 2     \* requests in flight at once
MaxFiles == 5        \* file identifiers the provider can hand out
MaxEnvSteps == 1     \* changes made to the drive by other users of the account

\* ------------------------------------------------------------------ strings
Absent == [set |-> FALSE, val |-> <<>>]
Some(s) == [set |-> TRUE, val |-> s]

\* `v or ""` for an optional string.
OrEmpty(h) == IF h.set THEN h.val ELSE <<>>

RECURSIVE LStrip(_)
LStrip(s) == IF s # <<>> /\ Head(s) = " " THEN LStrip(Tail(s)) ELSE s

RECURSIVE RStrip(_)
RStrip(s) ==
    IF s # <<>> /\ s[Len(s)] = " " THEN RStrip(SubSeq(s, 1, Len(s) - 1)) ELSE s

\* str.strip()
Strip(s) == RStrip(LStrip(s))

\* str.removeprefix(p)
RemovePrefix(s, p) ==
    IF Len(s) >= Len(p) /\ SubSeq(s, 1, Len(p)) = p
    THEN SubSeq(s, Len(p) + 1, Len(s))
    ELSE s

BearerPrefix == <<"Bearer", " ">>

\* ------------------------------------------------------------------ config
PLAYGROUND_PATH == <<<<"Personal">>, <<"AI Research">>, <<"OpenClaw Playground">>>>

\* get_api_key: the stripped secret, or <<>> when the function raises RuntimeError.
get_api_key(e) == Strip(OrEmpty(e.DRIVE_PLAYGROUND_API_KEY))

ApiKeyConfigured(e) == get_api_key(e) # <<>>

\* The candidate require_api_key compares with the key: `x_api_key or bearer`.
Candidate(x_api_key, authorization) ==
    LET bearer == RemovePrefix(Strip(OrEmpty(authorization)), BearerPrefix)
    IN  IF x_api_key.set /\ x_api_key.val # <<>> THEN x_api_key.val ELSE bearer

\* require_api_key: "ok", "401" (HTTPException) or "500" (RuntimeError of get_api_key).
require_api_key(e, x_api_key, authorization) ==
    IF ~ApiKeyConfigured(e) THEN "500"
    ELSE IF Candidate(x_api_key, authorization) # get_api_key(e) THEN "401"
    ELSE "ok"

\* ------------------------------------------------------------------ credentials
\* google.oauth2.credentials.Credentials: valid, expired, refresh_token.
TokValid == [valid |-> TRUE,  expired |-> FALSE, refresh_token |-> TRUE]
TokExpR  == [valid |-> FALSE, expired |-> TRUE,  refresh_token |-> TRUE]
TokExpNR == [valid |-> FALSE, expired |-> TRUE,  refresh_token |-> FALSE]
NoCreds  == [valid |-> FALSE, expired |-> FALSE, refresh_token |-> FALSE]

\* What get_drive_service loads before any refresh: lines 59-70.
\* kind "raise" is the ValueError of a malformed GOOGLE_DRIVE_TOKEN_JSON.
LoadCreds(e, tf) ==
    IF e.GOOGLE_DRIVE_TOKEN_JSON.state # "unset"
    THEN IF e.GOOGLE_DRIVE_TOKEN_JSON.state = "malformed"
         THEN [kind |-> "raise", have |-> FALSE, creds |-> NoCreds]
         ELSE [kind |-> "ok", have |-> TRUE, creds |-> e.GOOGLE_DRIVE_TOKEN_JSON.creds]
    ELSE IF tf.exists
         THEN [kind |-> "ok", have |-> TRUE, creds |-> tf.creds]
         ELSE [kind |-> "ok", have |-> FALSE, creds |-> NoCreds]

\* Line 71: the refresh is attempted.
NeedsRefresh(l) ==
    l.have /\ ~l.creds.valid /\ l.creds.expired /\ l.creds.refresh_token

\* Line 73: the interactive flow is needed.
NeedsFlow(have, creds) == ~have \/ ~creds.valid

\* Lines 75-93: which client secrets the flow starts from.
FlowSource(e) ==
    IF e.GOOGLE_DRIVE_CREDENTIALS_JSON # "unset"
    THEN IF e.GOOGLE_DRIVE_CREDENTIALS_JSON = "malformed" THEN "raise" ELSE "env"
    ELSE IF e.credentials_file THEN "file" ELSE "raise"

\* Line 94: the condition under which the new token is written to TOKEN_FILE.
PersistToken(e, tf) == e.GOOGLE_DRIVE_TOKEN_JSON.state = "unset" /\ tf.exists = FALSE

\* ------------------------------------------------------------------ content
\* str.encode("utf-8") on the characters of the model's alphabet.
RECURSIVE Encode(_)
Encode(s) ==
    IF s = <<>> THEN <<>>
    ELSE (IF Head(s) = "h" THEN <<104>>
          ELSE IF Head(s) = "i" THEN <<105>>
          ELSE <<195, 169>>) \o Encode(Tail(s))     \* "E": a two-byte character

\* bytes.decode("utf-8", errors="replace")
RECURSIVE Decode(_)
Decode(b) ==
    IF b = <<>> THEN <<>>
    ELSE IF Head(b) = 104 THEN <<"h">> \o Decode(Tail(b))
    ELSE IF Head(b) = 105 THEN <<"i">> \o Decode(Tail(b))
    ELSE IF Head(b) = 195 /\ Len(b) >= 2 /\ b[2] = 169
         THEN <<"E">> \o Decode(Tail(Tail(b)))
    ELSE <<"?">> \o Decode(Tail(b))

\* ------------------------------------------------------------------ the drive
FolderIds == {"root", "P", "A", "G", "G2", "X"}
FileId(i) == "f" \o ToString(i)
FileIds == {FileId(i) : i \in 1..MaxFiles}
AllIds == FolderIds \cup FileIds

NoItem ==
    [used |-> FALSE, exists |-> FALSE, name |-> <<>>, parents |-> {}, trashed |-> FALSE,
     folder |-> FALSE, content |-> <<>>]
Folder(n, p) ==
    [used |-> TRUE, exists |-> TRUE, name |-> n, parents |-> {p}, trashed |-> FALSE,
     folder |-> TRUE, content |-> <<>>]
File(n, p, c) ==
    [used |-> TRUE, exists |-> TRUE, name |-> n, parents |-> {p}, trashed |-> FALSE,
     folder |-> FALSE, content |-> c]

Exists(d, id) == id \in DOMAIN d /\ d[id].exists
ParentsOf(d, id) == IF Exists(d, id) THEN d[id].parents ELSE {}
ChildrenOf(d, fid) == {i \in DOMAIN d : d[i].exists /\ fid \in d[i].parents}

\* --- the q strings the service builds ---------------------------------------
\* Line 110.
FolderQuery(parent_id, name) ==
    <<"'", parent_id, "'", "in parents", "and", "name =", "'">> \o name
        \o <<"'", "and", "mimeType = folder", "and", "trashed = false">>

\* Line 158.
ListQuery(folder_id) ==
    <<"'", folder_id, "'", "in parents", "and", "trashed = false">>

\* Line 224.
WriteQuery(folder_id, name) ==
    <<"'", folder_id, "'", "in parents", "and", "name =", "'">> \o name
        \o <<"'", "and", "trashed = false">>

\* --- the provider's reading of q: terms joined by "and" ---------------------
NoTerms == [ok |-> TRUE, parents |-> {}, names |-> {}, folder |-> FALSE, live |-> FALSE]
BadQuery == [ok |-> FALSE, parents |-> {}, names |-> {}, folder |-> FALSE, live |-> FALSE]

\* The first closing quote at or after position j, 0 when there is none.
RECURSIVE ClosingQuote(_, _)
ClosingQuote(q, j) ==
    IF j > Len(q) THEN 0
    ELSE IF q[j] = "'" THEN j
    ELSE ClosingQuote(q, j + 1)

RECURSIVE ParseTerms(_, _, _)
\* After a term: the end of the query, or "and" and one more term.
ParseRest(q, i, acc) ==
    IF i > Len(q) THEN acc
    ELSE IF q[i] = "and" THEN ParseTerms(q, i + 1, acc)
    ELSE BadQuery

ParseTerms(q, i, acc) ==
    IF i > Len(q) THEN BadQuery
    ELSE IF q[i] = "'"
         THEN IF i + 3 <= Len(q) /\ q[i + 2] = "'" /\ q[i + 3] = "in parents"
              THEN ParseRest(q, i + 4, [acc EXCEPT !.parents = @ \cup {q[i + 1]}])
              ELSE BadQuery
    ELSE IF q[i] = "name ="
         THEN IF i + 1 <= Len(q) /\ q[i + 1] = "'" /\ ClosingQuote(q, i + 2) # 0
              THEN LET j == ClosingQuote(q, i + 2)
                   IN  ParseRest(q, j + 1,
                           [acc EXCEPT !.names = @ \cup {SubSeq(q, i + 2, j - 1)}])
              ELSE BadQuery
    ELSE IF q[i] = "mimeType = folder"
         THEN ParseRest(q, i + 1, [acc EXCEPT !.folder = TRUE])
    ELSE IF q[i] = "trashed = false"
         THEN ParseRest(q, i + 1, [acc EXCEPT !.live = TRUE])
    ELSE BadQuery

ParseQuery(q) == ParseTerms(q, 1, NoTerms)

\* files.list: the identifiers matching q (the provider fixes no order among them).
Matches(d, q) ==
    LET t == ParseQuery(q)
    IN  {i \in DOMAIN d :
            /\ d[i].exists
            /\ t.parents \subseteq d[i].parents
            /\ \A n \in t.names : d[i].name = n
            /\ (t.folder => d[i].folder)
            /\ (t.live => ~d[i].trashed)}

\* The identifier files.create hands out: one that never named a file.
UsedIds(d) == {i \in DOMAIN d : d[i].used}
HasFreeId(d) == \E i \in 1..MaxFiles : FileId(i) \notin UsedIds(d)
NewId(d) ==
    FileId(CHOOSE i \in 1..MaxFiles :
               /\ FileId(i) \notin UsedIds(d)
               /\ \A j \in 1..(i - 1) : FileId(j) \in UsedIds(d))

\* get_playground_folder_id, lines 101-103: the configured identifier, stripped.
ConfiguredFolder(e) == Strip(OrEmpty(e.DRIVE_PLAYGROUND_FOLDER_ID))

\* ------------------------------------------------------------------ state
VARIABLES
    env,        \* os.environ and the credentials.json file: fixed while the service runs
    tokenFile,  \* TOKEN_FILE: [exists, creds]
    drive,      \* the provider: identifier -> item
    req,        \* the requests: slot -> the handler's locals, position and response
    clients,    \* what the clients send: [inputs, quota, inflight]
    envLeft,    \* changes other users of the drive may still make
    before      \* requests served one at a time: the drive when the latest one arrived

vars == <<env, tokenFile, drive, req, clients, envLeft, before>>

Slots == 1..MaxReq

IdleReq ==
    [pc |-> "idle", op |-> "none", x_api_key |-> Absent, authorization |-> Absent,
     page_size |-> 50, body_ok |-> TRUE, file_id |-> "", name |-> <<>>, content |-> <<>>,
     folder_id |-> "", step |-> 0, parent_id |-> "root", match |-> "",
     status |-> 0, action |-> "", id |-> "", text |-> <<>>, files |-> {}, more |-> FALSE,
     provider |-> FALSE, flow |-> FALSE, offScope |-> FALSE,
     looked |-> FALSE]

InFlight(rq) == rq.pc \notin {"idle", "done"}

\* The response is sent: an HTTP status, and the handler is over.
Finish(rq, st) == [rq EXCEPT !.pc = "done", !.status = st]

Step(r, new) == req' = [req EXCEPT ![r] = new]

\* FastAPI validates the declared parameters before it calls the handler
\* (page_size: Query(50, ge=1, le=100); body: WriteBody); the handler then starts
\* with require_api_key.  "422", "500", "401" or "ok".
HandlerEntry(e, t) ==
    IF \/ (t.op = "list" /\ t.page_size \notin 1..100)
       \/ (t.op = "write" /\ ~t.body_ok)
    THEN "422"
    ELSE require_api_key(e, t.x_api_key, t.authorization)

StatusOf(code) ==
    IF code = "422" THEN 422 ELSE IF code = "401" THEN 401 ELSE 500

\* The first provider call of each operation.
FirstCall(op) ==
    IF op = "list" THEN "list" ELSE IF op = "read" THEN "meta" ELSE "lookup"

\* ------------------------------------------------------------------ actions
\* A request arrives: parameter validation and the Access Gate.
Receive(r) ==
    /\ req[r].pc = "idle"
    /\ r <= clients.quota
    /\ \A q \in 1..(r - 1) : req[q].pc # "idle"
    /\ Cardinality({q \in Slots : InFlight(req[q])}) < clients.inflight
    /\ \E t \in clients.inputs :
        LET base == [IdleReq EXCEPT
                        !.op = t.op, !.x_api_key = t.x_api_key,
                        !.authorization = t.authorization,
                        !.page_size = t.page_size, !.body_ok = t.body_ok,
                        !.file_id = t.file_id, !.name = t.name,
                        !.content = t.content]
            code == HandlerEntry(env, t)
        IN  Step(r, IF code = "ok" THEN [base EXCEPT !.pc = "creds"]
                    ELSE Finish(base, StatusOf(code)))
    /\ before' = IF clients.inflight = 1 THEN drive ELSE before
    /\ UNCHANGED <<env, tokenFile, drive, clients, envLeft>>

\* get_drive_service: load, refresh, interactive flow, persist.
GetDriveService(r) ==
    /\ req[r].pc = "creds"
    /\ LET l == LoadCreds(env, tokenFile)
           refreshed == NeedsRefresh(l)
           rq == [req[r] EXCEPT !.provider = TRUE]
       IN
       \* The identity provider grants or refuses the refresh, the user the consent.
       \E refreshOk \in IF refreshed THEN BOOLEAN ELSE {TRUE} :
       \E flowOk \in IF NeedsFlow(l.have, IF refreshed THEN TokValid ELSE l.creds)
                          /\ FlowSource(env) # "raise" /\ l.kind # "raise" /\ refreshOk
                      THEN BOOLEAN ELSE {TRUE} :
        LET creds == IF refreshed /\ refreshOk THEN TokValid ELSE l.creds
        IN  IF l.kind = "raise" \/ (refreshed /\ ~refreshOk)
            THEN Step(r, Finish(rq, 500)) /\ UNCHANGED tokenFile
            ELSE IF ~NeedsFlow(l.have, creds)
            THEN Step(r, [rq EXCEPT !.pc = "resolve"]) /\ UNCHANGED tokenFile
            ELSE IF FlowSource(env) = "raise" \/ ~flowOk
            THEN Step(r, Finish(rq, 500)) /\ UNCHANGED tokenFile
            ELSE /\ Step(r, [rq EXCEPT !.pc = "resolve", !.flow = TRUE])
                 /\ tokenFile' = IF PersistToken(env, tokenFile)
                                 THEN [exists |-> TRUE, creds |-> TokValid]
                                 ELSE tokenFile
    /\ UNCHANGED <<env, drive, clients, envLeft, before>>

\* get_playground_folder_id: the configured identifier, or one files.list call
\* for the next name of PLAYGROUND_PATH.
Resolve(r) ==
    /\ req[r].pc = "resolve"
    /\ LET rq == req[r]
           conf == ConfiguredFolder(env)
           ms == Matches(drive, FolderQuery(rq.parent_id, PLAYGROUND_PATH[rq.step + 1]))
       IN  IF conf # <<>>
           THEN Step(r, [rq EXCEPT !.folder_id = Head(conf), !.pc = FirstCall(rq.op)])
           ELSE IF ms = {}
           THEN Step(r, Finish(rq, 500))
           ELSE \E m \in ms :
                   Step(r, IF rq.step + 1 = Len(PLAYGROUND_PATH)
                           THEN [rq EXCEPT !.step = @ + 1, !.parent_id = m,
                                           !.folder_id = m, !.pc = FirstCall(rq.op)]
                           ELSE [rq EXCEPT !.step = @ + 1, !.parent_id = m])
    /\ UNCHANGED <<env, tokenFile, drive, clients, envLeft, before>>

\* list_files: one page of the children of the scope folder.
ListFiles(r) ==
    /\ req[r].pc = "list"
    /\ LET rq == req[r]
           ms == Matches(drive, ListQuery(rq.folder_id))
           n == IF Cardinality(ms) < rq.page_size THEN Cardinality(ms) ELSE rq.page_size
       IN  \E page \in SUBSET ms :
              /\ Cardinality(page) = n
              /\ Step(r, [Finish(rq, 200) EXCEPT !.files = page, !.more = (page # ms)])
    /\ UNCHANGED <<env, tokenFile, drive, clients, envLeft, before>>

\* read_file, lines 185-191: the metadata and the scope check.
ReadMeta(r) ==
    /\ req[r].pc = "meta"
    /\ LET rq == req[r]
       IN  IF ~Exists(drive, rq.file_id)
           THEN Step(r, Finish(rq, 500))
           ELSE IF rq.folder_id \notin drive[rq.file_id].parents
           THEN Step(r, Finish(rq, 403))
           ELSE Step(r, [rq EXCEPT !.pc = "media"])
    /\ UNCHANGED <<env, tokenFile, drive, clients, envLeft, before>>

\* read_file, lines 192-202: the download.
ReadMedia(r) ==
    /\ req[r].pc = "media"
    /\ LET rq == req[r]
       IN  IF ~Exists(drive, rq.file_id) \/ drive[rq.file_id].folder
           THEN Step(r, Finish(rq, 404))
           ELSE Step(r, [Finish(rq, 200) EXCEPT
                            !.text = Decode(drive[rq.file_id].content),
                            !.offScope = rq.folder_id \notin drive[rq.file_id].parents])
    /\ UNCHANGED <<env, tokenFile, drive, clients, envLeft, before>>

\* write_file, lines 221-230: is there a file of that name in the folder.
WriteLookup(r) ==
    /\ req[r].pc = "lookup"
    /\ LET rq == [req[r] EXCEPT !.looked = TRUE]
           q == WriteQuery(rq.folder_id, rq.name)
           ms == Matches(drive, q)
       IN  IF ~ParseQuery(q).ok
           THEN Step(r, Finish(rq, 500))
           ELSE IF ms = {}
           THEN Step(r, [rq EXCEPT !.pc = "create"])
           ELSE \E m \in ms : Step(r, [rq EXCEPT !.match = m, !.pc = "update_name"])
    /\ UNCHANGED <<env, tokenFile, drive, clients, envLeft, before>>

\* write_file, line 239: files.update(fileId, body={"name": ...}).
WriteUpdateName(r) ==
    /\ req[r].pc = "update_name"
    /\ LET rq == req[r]
       IN  IF ~Exists(drive, rq.match)
           THEN Step(r, Finish(rq, 500)) /\ UNCHANGED drive
           ELSE /\ drive' = [drive EXCEPT ![rq.match].name = rq.name]
                /\ Step(r, [rq EXCEPT
                               !.pc = "update_media",
                               !.offScope = @ \/ rq.folder_id \notin drive[rq.match].parents])
    /\ UNCHANGED <<env, tokenFile, clients, envLeft, before>>

\* write_file, lines 240-241: files.update(fileId, media_body=...).
WriteUpdateMedia(r) ==
    /\ req[r].pc = "update_media"
    /\ LET rq == req[r]
       IN  IF ~Exists(drive, rq.match)
           THEN Step(r, Finish(rq, 500)) /\ UNCHANGED drive
           ELSE /\ drive' = [drive EXCEPT ![rq.match].content = Encode(rq.content)]
                /\ Step(r, [Finish(rq, 200) EXCEPT
                               !.action = "updated", !.id = rq.match,
                               !.offScope = @ \/ rq.folder_id \notin drive[rq.match].parents])
    /\ UNCHANGED <<env, tokenFile, clients, envLeft, before>>

\* The create path answering with the tag of the update path.
CreateReturnUpdated(rq, new) == [Finish(rq, 200) EXCEPT !.action = "updated", !.id = new]

\* write_file, line 244: the response of the create path.
CreateReturn(rq, new) == [Finish(rq, 200) EXCEPT !.action = "created", !.id = new]

\* write_file, lines 243-244: files.create with the scope folder as parent.
WriteCreate(r) ==
    /\ req[r].pc = "create"
    /\ HasFreeId(drive)
    /\ LET rq == req[r]
           new == NewId(drive)
       IN  IF ~Exists(drive, rq.folder_id)
           THEN Step(r, Finish(rq, 500)) /\ UNCHANGED drive
           ELSE /\ drive' = [drive EXCEPT
                                ![new] = File(rq.name, rq.folder_id, Encode(rq.content))]
                /\ Step(r, CreateReturn(rq, new))
    /\ UNCHANGED <<env, tokenFile, clients, envLeft, before>>

\* Another user of the drive moves a file to another folder.
EnvMove ==
    /\ envLeft > 0
    /\ \E f \in FileIds, to \in {"G", "X"} :
        /\ Exists(drive, f)
        /\ drive[f].parents # {to}
        /\ drive' = [drive EXCEPT ![f].parents = {to}]
    /\ envLeft' = envLeft - 1
    /\ UNCHANGED <<env, tokenFile, req, clients, before>>

\* Another user of the drive deletes a file.
EnvDelete ==
    /\ envLeft > 0
    /\ \E f \in FileIds :
        /\ Exists(drive, f)
        /\ drive' = [drive EXCEPT ![f].exists = FALSE]
    /\ envLeft' = envLeft - 1
    /\ UNCHANGED <<env, tokenFile, req, clients, before>>

Next ==
    \/ \E r \in Slots : Receive(r)
    \/ \E r \in Slots : GetDriveService(r)
    \/ \E r \in Slots : Resolve(r)
    \/ \E r \in Slots : ListFiles(r)
    \/ \E r \in Slots : ReadMeta(r)
    \/ \E r \in Slots : ReadMedia(r)
    \/ \E r \in Slots : WriteLookup(r)
    \/ \E r \in Slots : WriteUpdateName(r)
    \/ \E r \in Slots : WriteUpdateMedia(r)
    \/ \E r \in Slots : WriteCreate(r)
    \/ EnvMove
    \/ EnvDelete

\* ------------------------------------------------------------------ initial states
Secret == <<"k">>
Wrong == <<"w">>

GoodEnv ==
    [DRIVE_PLAYGROUND_API_KEY |-> Some(Secret),
     GOOGLE_DRIVE_TOKEN_JSON |-> [state |-> "ok", creds |-> TokValid],
     GOOGLE_DRIVE_CREDENTIALS_JSON |-> "unset",
     credentials_file |-> FALSE,
     DRIVE_PLAYGROUND_FOLDER_ID |-> Some(<<"G">>)]

NoTokenFile == [exists |-> FALSE, creds |-> NoCreds]

NameA == <<"a">>
NameB == <<"b">>
NameQuote == <<"a", "'", "b">>                        \* a'b
NameAnd == <<"a", "'", "and", "name =", "'", "a">>    \* a' and name = 'a
Hi == <<"h", "i">>
HiE == <<"h", "i", "E">>

\* My Drive / Personal / AI Research / OpenClaw Playground, and one other folder.
Tree ==
    [i \in AllIds |->
        IF i = "root" THEN [Folder(<<"My Drive">>, "") EXCEPT !.parents = {}]
        ELSE IF i = "P" THEN Folder(PLAYGROUND_PATH[1], "root")
        ELSE IF i = "A" THEN Folder(PLAYGROUND_PATH[2], "P")
        ELSE IF i = "G" THEN Folder(PLAYGROUND_PATH[3], "A")
        ELSE IF i = "X" THEN Folder(<<"Other">>, "root")
        ELSE NoItem]

\* A second folder of the last name beside the first, live or in the bin.
TreeTwin == [Tree EXCEPT !["G2"] = Folder(PLAYGROUND_PATH[3], "A")]
TreeBinned == [TreeTwin EXCEPT !["G2"].trashed = TRUE]
TreeShort == [Tree EXCEPT !["G"] = NoItem]

\* f1 "a" in the playground, f2 "a" in the other folder.
WithFiles(t) ==
    [t EXCEPT !["f1"] = File(NameA, "G", Encode(Hi)),
              !["f2"] = File(NameA, "X", <<104, 195>>)]
\* Two files named "a" in the playground.
WithTwins(t) ==
    [t EXCEPT !["f1"] = File(NameA, "G", Encode(Hi)),
              !["f2"] = File(NameA, "G", Encode(HiE))]

Template(op, x, a, ps, ok, fid, n, c) ==
    [op |-> op, x_api_key |-> x, authorization |-> a, page_size |-> ps,
     body_ok |-> ok, file_id |-> fid, name |-> n, content |-> c]

\* Requests of a client that holds the secret.
List(ps) == Template("list", Some(Secret), Absent, ps, TRUE, "", <<>>, <<>>)
Read(fid) == Template("read", Some(Secret), Absent, 50, TRUE, fid, <<>>, <<>>)
Write(n, c) == Template("write", Some(Secret), Absent, 50, TRUE, "", n, c)

XApiKeyValues == {Absent, Some(<<>>), Some(Secret), Some(Wrong)}
AuthorizationValues ==
    {Absent, Some(Secret), Some(BearerPrefix \o Secret), Some(BearerPrefix \o Wrong),
     Some(<<" ">> \o BearerPrefix \o Secret \o <<" ">>),
     Some(BearerPrefix \o BearerPrefix \o Secret)}
ApiKeyValues == {Absent, Some(<<" ">>), Some(Secret), Some(<<" ">> \o Secret \o <<" ">>)}

GateInputs ==
    {[t EXCEPT !.x_api_key = x, !.authorization = a] :
        x \in XApiKeyValues, a \in AuthorizationValues,
        t \in {List(50), List(0), List(101), Read("f1"), Write(NameA, Hi),
               [Write(<<>>, <<>>) EXCEPT !.body_ok = FALSE]}}

Tokens == {TokValid, TokExpR, TokExpNR, NoCreds}

\* The Access Gate: every header pair against every setting of the secret.
InitGate ==
    /\ env \in {[GoodEnv EXCEPT !.DRIVE_PLAYGROUND_API_KEY = k] : k \in ApiKeyValues}
    /\ tokenFile = NoTokenFile
    /\ drive = WithFiles(Tree)
    /\ clients = [inputs |-> GateInputs, quota |-> 1, inflight |-> 1]
    /\ envLeft = 0

\* The Credential Provider: every combination of the credential sources.
InitCreds ==
    /\ env \in {[GoodEnv EXCEPT !.GOOGLE_DRIVE_TOKEN_JSON = tj,
                                !.GOOGLE_DRIVE_CREDENTIALS_JSON = cj,
                                !.credentials_file = cf] :
                   tj \in {[state |-> "unset", creds |-> NoCreds],
                           [state |-> "malformed", creds |-> NoCreds]}
                          \cup {[state |-> "ok", creds |-> c] : c \in Tokens},
                   cj \in {"unset", "malformed", "ok"},
                   cf \in BOOLEAN}
    /\ tokenFile \in {NoTokenFile} \cup {[exists |-> TRUE, creds |-> c] : c \in Tokens}
    /\ drive = WithFiles(Tree)
    /\ clients = [inputs |-> {List(50)}, quota |-> 2, inflight |-> 1]
    /\ envLeft = 0

\* The Folder Resolver: no identifier configured, the path is walked.
InitResolve ==
    /\ env \in {[GoodEnv EXCEPT !.DRIVE_PLAYGROUND_FOLDER_ID = f] :
                   f \in {Absent, Some(<<" ">>)}}
    /\ tokenFile = NoTokenFile
    /\ drive \in {WithFiles(Tree), WithFiles(TreeTwin), WithFiles(TreeBinned),
                  WithFiles(TreeShort)}
    /\ clients = [inputs |-> {List(50), List(1), Write(NameA, Hi)},
                  quota |-> 2, inflight |-> 2]
    /\ envLeft = 0

FileInputs ==
    {Read("f1"), Read("f2"), Read("f9")}
        \cup {Write(n, c) : n \in {NameA, NameB, NameQuote, NameAnd}, c \in {Hi, HiE}}

\* The File Operations, one request after the other, the drive left alone.
InitSerial ==
    /\ env = GoodEnv
    /\ tokenFile = NoTokenFile
    /\ drive \in {Tree, WithFiles(Tree), WithTwins(Tree)}
    /\ clients = [inputs |-> FileInputs, quota |-> MaxReq, inflight |-> 1]
    /\ envLeft = 0

\* The File Operations, concurrent, on a drive that others change.
InitRace ==
    /\ env = GoodEnv
    /\ tokenFile = NoTokenFile
    /\ drive = WithFiles(Tree)
    /\ clients = [inputs |-> {List(50), Read("f1"), Write(NameA, HiE), Write(NameB, Hi)},
                  quota |-> Concurrency, inflight |-> Concurrency]
    /\ envLeft = MaxEnvSteps

Init ==
    /\ req = [r \in Slots |-> IdleReq]
    /\ (InitGate \/ InitCreds \/ InitResolve \/ InitSerial \/ InitRace)
    /\ before = drive

Spec == Init /\ [][Next]_vars

\* Concurrent requests only.
RaceInit == req = [r \in Slots |-> IdleReq] /\ InitRace /\ before = drive
SpecRace == RaceInit /\ [][Next]_vars

\* ------------------------------------------------------------------ properties
Started(rq) == rq.pc # "idle"
Done(rq) == rq.pc = "done"

\* The handler got past require_api_key: it went on to the credential load.
PassedGate(rq) == Started(rq) /\ ~(Done(rq) /\ ~rq.provider)

\* The value the Authorization header carries after its scheme.
BearerValue(a) == RemovePrefix(Strip(OrEmpty(a)), BearerPrefix)

\* One of the two headers carries the configured secret.
SuppliesSecret(rq) ==
    \/ (rq.x_api_key.set /\ rq.x_api_key.val = get_api_key(env))
    \/ BearerValue(rq.authorization) = get_api_key(env)

\* The two forms the interface documents: X-Api-Key: <secret>, Authorization: Bearer <secret>.
InXApiKey(rq) == rq.x_api_key.set /\ rq.x_api_key.val = get_api_key(env)
AsBearer(rq) ==
    rq.authorization.set /\ Strip(rq.authorization.val) = BearerPrefix \o get_api_key(env)

\* Requests are served one at a time and nobody else changes the drive.
Serial == clients.inflight = 1 /\ envLeft = 0

\* The request received last.
Latest(r) == Started(req[r]) /\ \A q \in Slots : q > r => ~Started(req[q])

\* The live children of folder fid in drive d whose name is exactly n.
Named(d, fid, n) ==
    {i \in DOMAIN d : d[i].exists /\ fid \in d[i].parents /\ ~d[i].trashed /\ d[i].name = n}

\* C1: with a secret configured, a request to /list, /files/{id}/content or /write
\* whose headers do not carry it is answered 401 and makes no provider call,
\* whatever its other parameters are.
C1_NoSecret401 ==
    \A r \in Slots :
        (Started(req[r]) /\ ApiKeyConfigured(env) /\ ~SuppliesSecret(req[r]))
            => (Done(req[r]) /\ req[r].status = 401 /\ ~req[r].provider)

\* C2: an authorized Read whose file does not have the scope folder among its
\* parents, be it a file elsewhere or no file at all, is answered 403.
C2_OutsideIs403 ==
    [][\A r \in Slots :
          (/\ req[r].pc = "meta"
           /\ req'[r].pc # "meta"
           /\ req[r].folder_id \notin ParentsOf(drive, req[r].file_id))
              => (Done(req'[r]) /\ req'[r].status = 403 /\ req'[r].text = <<>>)]_vars

\* C3: a Write served without interleaving answers "updated" with the identifier
\* of a child of exactly that name and leaves the folder's files as they were, or,
\* when there is no such child, answers "created" with an identifier that named no
\* file before and adds exactly that one file, with the scope folder as sole parent.
C3_UpdateOrCreate ==
    \A r \in Slots :
        (Serial /\ Latest(r) /\ Done(req[r]) /\ req[r].op = "write" /\ req[r].looked)
            => LET rq == req[r]
                   same == Named(before, rq.folder_id, rq.name)
               IN  /\ rq.status = 200
                   /\ IF same # {}
                      THEN /\ rq.action = "updated"
                           /\ rq.id \in same
                           /\ ChildrenOf(drive, rq.folder_id)
                                 = ChildrenOf(before, rq.folder_id)
                      ELSE /\ rq.action = "created"
                           /\ rq.id \notin UsedIds(before)
                           /\ ChildrenOf(drive, rq.folder_id)
                                 = ChildrenOf(before, rq.folder_id) \cup {rq.id}
                           /\ drive[rq.id].parents = {rq.folder_id}

\* C4: every file a Read returns or a Write updates has the scope folder among
\* its parents at the moment of the provider call that touches it.
C4_OnlyInScope == \A r \in Slots : ~req[r].offScope

\* C5: starting with no file of the name, Write then Write of the same name with
\* other content answer "created" with an id and then "updated" with the same id,
\* and a Read of that id afterwards returns the content of the second Write.
C5_WriteWriteRead ==
    \A w \in Slots :
        (Serial /\ Done(req[w]) /\ req[w].op = "write" /\ req[w].looked)
            => /\ (Latest(w) /\ Named(before, req[w].folder_id, req[w].name) = {})
                      => (req[w].status = 200 /\ req[w].action = "created")
               /\ (/\ req[w].action = "created"
                   /\ w + 1 \in Slots
                   /\ Done(req[w + 1]) /\ req[w + 1].op = "write"
                   /\ req[w + 1].name = req[w].name
                   /\ req[w + 1].content # req[w].content)
                      => /\ req[w + 1].status = 200
                         /\ req[w + 1].action = "updated"
                         /\ req[w + 1].id = req[w].id
                         /\ (/\ w + 2 \in Slots
                             /\ Done(req[w + 2]) /\ req[w + 2].op = "read"
                             /\ req[w + 2].file_id = req[w].id)
                                => /\ req[w + 2].status = 200
                                   /\ req[w + 2].text = req[w + 1].content

\* C6: with no secret configured the service serves no request to an
\* authenticated route: none is accepted, none is answered with a per-request error.
C6_FailFast == ~ApiKeyConfigured(env) => \A r \in Slots : ~Started(req[r])

\* C7: a request passes the Access Gate exactly when X-Api-Key carries the
\* secret or Authorization is "Bearer <secret>", whatever the other header holds;
\* with both headers absent it is answered 401.
C7_EitherHeader ==
    \A r \in Slots :
        (Started(req[r]) /\ ApiKeyConfigured(env) /\ req[r].status # 422)
            => /\ PassedGate(req[r]) <=> (InXApiKey(req[r]) \/ AsBearer(req[r]))
               /\ (~req[r].x_api_key.set /\ ~req[r].authorization.set)
                      => req[r].status = 401

\* C8: once get_drive_service has run the interactive flow with no token in
\* the deployment secret, the token is in the local token store and no later
\* call runs the flow again.
C8_FlowPersists ==
    \A r \in Slots :
        (req[r].flow /\ env.GOOGLE_DRIVE_TOKEN_JSON.state = "unset")
            => /\ tokenFile.exists /\ tokenFile.creds.valid
               /\ \A q \in Slots : q > r => ~req[q].flow

\* C9: with no folder identifier configured, any two resolutions of the path
\* against the same folder tree return the same identifier.
C9_ResolveIdempotent ==
    ConfiguredFolder(env) = <<>>
        => \A r1, r2 \in Slots :
              (req[r1].folder_id # "" /\ req[r2].folder_id # "")
                  => req[r1].folder_id = req[r2].folder_id

\* The lookup of a Write found no file: the handler went on to the create path.
SawNone(rq) ==
    /\ rq.op = "write" /\ rq.looked /\ rq.match = ""
    /\ rq.pc \in {"create", "done"}
    /\ ParseQuery(WriteQuery(rq.folder_id, rq.name)).ok

\* Two Writes of one name whose lookups both found no file of that name.
BothSawNone(r1, r2) ==
    /\ r1 # r2
    /\ req[r1].name = req[r2].name
    /\ SawNone(req[r1]) /\ SawNone(req[r2])

\* C10: two Writes of one name whose lookups both found nothing both take the
\* create path: each answers "created", the identifiers differ, and (the drive
\* untouched by others) the scope folder holds both files under that one name.
C10_BothCreate ==
    \A r1, r2 \in Slots :
        (BothSawNone(r1, r2) /\ Done(req[r1]) /\ Done(req[r2]))
            => /\ req[r1].status = 200 /\ req[r2].status = 200
               /\ req[r1].action = "created" /\ req[r2].action = "created"
               /\ req[r1].id # req[r2].id
               /\ envLeft = MaxEnvSteps
                    => {req[r1].id, req[r2].id}
                          \subseteq Named(drive, req[r1].folder_id, req[r1].name)

\* Both requests were in flight together and the folder now has two files of the name.
C10_Witness ==
    /\ envLeft = MaxEnvSteps
    /\ BothSawNone(1, 2) /\ Done(req[1]) /\ Done(req[2])
    /\ req[1].action = "created" /\ req[2].action = "created"
    /\ req[1].id # req[2].id
    /\ Cardinality(Named(drive, req[1].folder_id, req[1].name)) = 2

====
